---- MODULE Spec2Model ----
(***************************************************************************)
(* Model of src/proginit.py: the process-wide logger, the in-memory        *)
(* ConfigParser `conf`, and the files save_conf() touches                   *)
(* (<conffile>, <conffile>.bak, <conffile>.new).                            *)
(*                                                                         *)
(* save_conf() is modelled statement by statement (copy, open, write,      *)
(* move) so that an interruption between two file operations is a state    *)
(* of the model.  reload_conf() and reconfigure_logger() touch memory      *)
(* only and are one action each.                                           *)
(*                                                                         *)
(* Two specifications share the definitions: Spec drives the               *)
(* configuration store and keeps the logger as constructed, SpecLog        *)
(* drives the logger and keeps the configuration store as constructed.     *)
(***************************************************************************)
EXTENDS Integers, Sequences, FiniteSets, TLC

\* ---------------------------------------------------------------- bounds
MaxEdits == 1      \* conf.set(...) calls by the rest of the program
MaxExtEdits == 1   \* rewrites of the config file by somebody else
MaxSaves == 2      \* save_conf() calls that get past their checks
MaxVerbose == 3    \* largest -v count
MaxCalls == 3      \* reconfigure_logger() calls
MaxForeign == 2    \* handlers attached by code outside this module

\* ---------------------------------------------------------------- domains
DEFAULTSECT == "DEFAULT"
SecNames == {"s1"}
Keys == {"k1"}
Values == {"v1", "v2"}
AnySec == SecNames \cup {DEFAULTSECT}

NoFile == [exists |-> FALSE]

VARIABLES
    conf_rw, conf_rw_save, conf_rw_backup,   \* module flags, lines 17-19
    has_conffile,     \* "conffile" in pargs
    conf,             \* the ConfigParser: [defaults, sections]
    fs,               \* name -> NoFile or [exists, data, whole]
    can_read, dir_writable, file_writable,   \* what os.access() answers
    pc,               \* position inside save_conf(), "idle" outside
    pre,              \* conf and fs when the running / last operation began
    last,             \* the last operation and how it ended
    edits, extedits, saves,
    handlers,         \* logger.handlers, a list of handler ids
    hkind,            \* id -> "console" | "file" | "foreign"
    hclosed,          \* ids whose close() has run
    level,            \* logger level
    verbose, logfile, logfile_ok,            \* pargs.verbose, pargs.logfile
    calls, foreign,
    lastlog           \* the last reconfigure_logger() call

confvars == <<conf_rw, conf_rw_save, conf_rw_backup, has_conffile, conf, fs,
              can_read, dir_writable, file_writable, pc, pre, last,
              edits, extedits, saves>>
logvars == <<handlers, hkind, hclosed, level, verbose, logfile, logfile_ok,
             calls, foreign, lastlog>>
vars == <<confvars, logvars>>

\* ------------------------------------------------- ConfigParser storage
\* A section body is a list of <<key, value>> with distinct keys, in
\* insertion order; conf.sections is a list of [name, items].
EmptyConf == [defaults |-> <<>>, sections |-> <<>>]

RECURSIVE IndexOfKey(_, _, _)
IndexOfKey(items, k, i) ==
    IF i > Len(items) THEN 0
    ELSE IF items[i][1] = k THEN i ELSE IndexOfKey(items, k, i + 1)

HasKey(items, k) == IndexOfKey(items, k, 1) # 0

ValueOf(items, k) == items[IndexOfKey(items, k, 1)][2]

PutKey(items, k, v) ==
    IF HasKey(items, k)
    THEN [items EXCEPT ![IndexOfKey(items, k, 1)] = <<k, v>>]
    ELSE Append(items, <<k, v>>)

RECURSIVE IndexOfSection(_, _, _)
IndexOfSection(secs, s, i) ==
    IF i > Len(secs) THEN 0
    ELSE IF secs[i].name = s THEN i ELSE IndexOfSection(secs, s, i + 1)

HasSection(c, s) == IndexOfSection(c.sections, s, 1) # 0

ItemsOf(c, s) ==
    IF s = DEFAULTSECT THEN c.defaults
    ELSE c.sections[IndexOfSection(c.sections, s, 1)].items

\* option s/k is stored in c (no fallback to DEFAULT)
Stored(c, s, k) ==
    /\ s = DEFAULTSECT \/ HasSection(c, s)
    /\ HasKey(ItemsOf(c, s), k)

StoredValue(c, s, k) == ValueOf(ItemsOf(c, s), k)

AddSection(c, s) ==
    [c EXCEPT !.sections = Append(@, [name |-> s, items |-> <<>>])]

SetOption(c, s, k, v) ==
    IF s = DEFAULTSECT
    THEN [c EXCEPT !.defaults = PutKey(@, k, v)]
    ELSE [c EXCEPT !.sections[IndexOfSection(c.sections, s, 1)].items =
                        PutKey(@, k, v)]

\* conf.sections(): the section names, DEFAULT is not one of them
SectionNames(c) == [i \in 1..Len(c.sections) |-> c.sections[i].name]

RemoveSection(c, s) ==
    [c EXCEPT !.sections = SelectSeq(@, LAMBDA sec: sec.name # s)]

RECURSIVE RemoveSections(_, _)
RemoveSections(c, names) ==
    IF names = <<>> THEN c
    ELSE RemoveSections(RemoveSection(c, Head(names)), Tail(names))

\* ------------------------------------------------------ conf.write(fh)
\* A file is a list of lines: <<"sec", name>>, <<"kv", key, value>>,
\* <<"blank">>.
RECURSIVE ItemLines(_)
ItemLines(items) ==
    IF items = <<>> THEN <<>>
    ELSE <<(<<"kv", Head(items)[1], Head(items)[2]>>)>> \o ItemLines(Tail(items))

SectionLines(name, items) ==
    <<(<<"sec", name>>)>> \o ItemLines(items) \o <<(<<"blank">>)>>

RECURSIVE SectionsLines(_)
SectionsLines(secs) ==
    IF secs = <<>> THEN <<>>
    ELSE SectionLines(Head(secs).name, Head(secs).items)
             \o SectionsLines(Tail(secs))

Serialize(c) ==
    (IF c.defaults # <<>> THEN SectionLines(DEFAULTSECT, c.defaults) ELSE <<>>)
        \o SectionsLines(c.sections)

\* ------------------------------------------------------ conf.read(path)
\* st = [c, cur, err]: the parser so far, the section the cursor is in
\* ("" before the first header), and whether an option line came before
\* any header.
ReadLine(st, line) ==
    IF st.err THEN st
    ELSE IF line[1] = "sec" THEN
        IF line[2] = DEFAULTSECT \/ HasSection(st.c, line[2])
        THEN [st EXCEPT !.cur = line[2]]
        ELSE [st EXCEPT !.c = AddSection(st.c, line[2]), !.cur = line[2]]
    ELSE IF line[1] = "kv" THEN
        IF st.cur = "" THEN [st EXCEPT !.err = TRUE]
        ELSE [st EXCEPT !.c = SetOption(st.c, st.cur, line[2], line[3])]
    ELSE st

RECURSIVE ReadLines(_, _)
ReadLines(st, lines) ==
    IF lines = <<>> THEN st
    ELSE ReadLines(ReadLine(st, Head(lines)), Tail(lines))

ReadFile(c, lines) == ReadLines([c |-> c, cur |-> "", err |-> FALSE], lines)

\* ------------------------------------------------------------- files
WholeFile(lines) == [exists |-> TRUE, data |-> lines, whole |-> TRUE]

\* the first n lines of `lines` written so far; whole once all are there
Written(lines, n, srcwhole) ==
    [exists |-> TRUE, data |-> SubSeq(lines, 1, n),
     whole |-> (n = Len(lines)) /\ srcwhole]

\* config files somebody else may have put on disk
FileConfs ==
    { [defaults |-> <<>>,
       sections |-> <<[name |-> "s1", items |-> <<(<<"k1", "v2">>)>>]>>],
      [defaults |-> <<(<<"k1", "v1">>)>>,
       sections |-> <<[name |-> "s1", items |-> <<>>]>>] }

DiskFiles == { WholeFile(Serialize(c)) : c \in FileConfs }

\* os.access(pargs.conffile, R_OK), os.access(pargs.conffile, W_OK),
\* os.access(dirname(pargs.conffile), W_OK)
AccessRead == fs["conf"].exists /\ can_read
AccessWrite == fs["conf"].exists /\ file_writable
AccessDir == dir_writable

Snapshot == [conf |-> conf, fs |-> fs]
NoOp == [op |-> "none", outcome |-> "", at |-> "", clear |-> FALSE]
Ended(op, outcome, at, clear) ==
    [op |-> op, outcome |-> outcome, at |-> at, clear |-> clear]

flagvars == <<conf_rw, conf_rw_save, conf_rw_backup, has_conffile,
              can_read, dir_writable, file_writable>>

\* ---------------------------------------------------------- reload_conf
\* ReloadCheck without the R_OK test of line 73
ReloadCheckNoRead ==
    IF ~has_conffile THEN "skip"
    ELSE IF conf_rw /\ (conf_rw_save \/ conf_rw_backup) /\ ~AccessDir
        THEN "no_dir_write"
    ELSE IF conf_rw /\ ~AccessWrite THEN "no_file_write"
    ELSE "go"

\* ReloadCheck with `and` for the `or` of line 76
ReloadCheckBothFlags ==
    IF ~has_conffile THEN "skip"
    ELSE IF ~AccessRead THEN "no_access"
    ELSE IF conf_rw /\ (conf_rw_save /\ conf_rw_backup) /\ ~AccessDir
        THEN "no_dir_write"
    ELSE IF conf_rw /\ ~AccessWrite THEN "no_file_write"
    ELSE "go"

\* lines 71-81: the checks, in the order the code makes them
ReloadCheck ==
    IF ~has_conffile THEN "skip"
    ELSE IF ~AccessRead THEN "no_access"
    ELSE IF conf_rw /\ (conf_rw_save \/ conf_rw_backup) /\ ~AccessDir
        THEN "no_dir_write"
    ELSE IF conf_rw /\ ~AccessWrite THEN "no_file_write"
    ELSE "go"

\* lines 83-86
Cleared(c, clear_load) ==
    IF clear_load THEN RemoveSections(c, SectionNames(c)) ELSE c

\* lines 83-90
Reloaded(c, clear_load, lines) == ReadFile(Cleared(c, clear_load), lines)

\* line 90: conf.read() reads nothing from a file it cannot open
ReadableLines == IF AccessRead THEN fs["conf"].data ELSE <<>>

reload_conf(clear_load) ==
    /\ pc = "idle"
    /\ pre' = Snapshot
    /\ LET chk == ReloadCheck
           st == Reloaded(conf, clear_load, ReadableLines)
       IN  IF chk = "skip" THEN
               /\ conf' = conf
               /\ last' = Ended("reload", "ok", "", clear_load)
           ELSE IF chk # "go" THEN
               /\ conf' = conf
               /\ last' = Ended("reload", chk, "", clear_load)
           ELSE
               /\ conf' = st.c
               /\ last' = Ended("reload", IF st.err THEN "parse_error" ELSE "ok",
                                "read", clear_load)
    /\ UNCHANGED <<flagvars, fs, pc, edits, extedits, saves, logvars>>

\* ------------------------------------------------------------ save_conf
\* SaveCheck without the conf_rw test of line 95
SaveCheckNoMode == IF ~has_conffile THEN "skip" ELSE "go"

\* SaveCheck without the "conffile" in pargs test of line 97
SaveCheckNoPath == IF ~conf_rw THEN "mode_error" ELSE "go"

\* lines 95-97
SaveCheck ==
    IF ~conf_rw THEN "mode_error"
    ELSE IF ~has_conffile THEN "skip"
    ELSE "go"

\* FirstStep when line 98-99 is left out
FirstStepNoBackup == "open"

\* lines 98, 100: the first file operation of a save that goes ahead
FirstStep == IF conf_rw_backup THEN "copy_open" ELSE "open"

\* WriteTarget when the write always goes over the config file
WriteTargetDirect == "conf"

\* lines 100-106: the file conf.write() goes to
WriteTarget == IF conf_rw_save THEN "new" ELSE "conf"

Raise(err) ==
    /\ pc' = "idle"
    /\ last' = Ended("save", err, pc, FALSE)

save_begin ==
    /\ pc = "idle"
    /\ saves < MaxSaves
    /\ pre' = Snapshot
    /\ LET chk == SaveCheck
       IN  IF chk = "mode_error" THEN
               /\ last' = Ended("save", "mode_error", "", FALSE)
               /\ UNCHANGED <<pc, saves>>
           ELSE IF chk = "skip" THEN
               /\ last' = Ended("save", "ok", "", FALSE)
               /\ UNCHANGED <<pc, saves>>
           ELSE
               /\ last' = Ended("save", "running", "", FALSE)
               /\ pc' = FirstStep
               /\ saves' = saves + 1
    /\ UNCHANGED <<flagvars, conf, fs, edits, extedits, logvars>>

\* line 99, shutil.copy: open the source for reading and the destination
\* for writing (created or truncated)
copy_open ==
    /\ pc = "copy_open"
    /\ IF ~AccessRead \/ (~fs["bak"].exists /\ ~AccessDir)
       THEN Raise("os_error") /\ fs' = fs
       ELSE /\ fs' = [fs EXCEPT !["bak"] =
                         Written(fs["conf"].data, 0, fs["conf"].whole)]
            /\ pc' = "copying"
            /\ last' = last
    /\ UNCHANGED <<flagvars, conf, pre, edits, extedits, saves, logvars>>

\* line 99, shutil.copy: the next piece of the source reaches the backup
copy_chunk ==
    /\ pc = "copying"
    /\ Len(fs["bak"].data) < Len(fs["conf"].data)
    /\ fs' = [fs EXCEPT !["bak"] =
                 Written(fs["conf"].data, Len(fs["bak"].data) + 1, fs["conf"].whole)]
    /\ UNCHANGED <<flagvars, conf, pc, pre, last, edits, extedits, saves, logvars>>

\* line 99, shutil.copy returns
copy_close ==
    /\ pc = "copying"
    /\ Len(fs["bak"].data) = Len(fs["conf"].data)
    /\ pc' = "open"
    /\ UNCHANGED <<flagvars, conf, fs, pre, last, edits, extedits, saves, logvars>>

\* lines 101 / 105: open(..., "w") creates or truncates the target
open_target ==
    /\ pc = "open"
    /\ LET t == WriteTarget
           denied == IF fs[t].exists
                     THEN t = "conf" /\ ~file_writable
                     ELSE ~AccessDir
       IN  IF denied
           THEN Raise("os_error") /\ fs' = fs
           ELSE /\ fs' = [fs EXCEPT ![t] = Written(Serialize(conf), 0, TRUE)]
                /\ pc' = "write"
                /\ last' = last
    /\ UNCHANGED <<flagvars, conf, pre, edits, extedits, saves, logvars>>

\* lines 102 / 106: conf.write(fh), one line reaching the disk
write_line ==
    /\ pc = "write"
    /\ LET t == WriteTarget
       IN  /\ Len(fs[t].data) < Len(Serialize(conf))
           /\ fs' = [fs EXCEPT ![t] =
                        Written(Serialize(conf), Len(fs[t].data) + 1, TRUE)]
    /\ UNCHANGED <<flagvars, conf, pc, pre, last, edits, extedits, saves, logvars>>

\* end of the with block: the file is closed
close_target ==
    /\ pc = "write"
    /\ Len(fs[WriteTarget].data) = Len(Serialize(conf))
    /\ IF conf_rw_save
       THEN pc' = "move" /\ last' = last
       ELSE pc' = "idle" /\ last' = Ended("save", "ok", "", FALSE)
    /\ UNCHANGED <<flagvars, conf, fs, pre, edits, extedits, saves, logvars>>

\* Moved when line 103 copies instead of moving
MovedByCopy(f) == [f EXCEPT !["conf"] = f["new"]]

\* line 103: shutil.move is os.rename within one directory
Moved(f) == [f EXCEPT !["conf"] = f["new"], !["new"] = NoFile]

move_new ==
    /\ pc = "move"
    /\ IF ~AccessDir
       THEN Raise("os_error") /\ fs' = fs
       ELSE /\ fs' = Moved(fs)
            /\ pc' = "idle"
            /\ last' = Ended("save", "ok", "", FALSE)
    /\ UNCHANGED <<flagvars, conf, pre, edits, extedits, saves, logvars>>

\* the process is stopped (signal, KeyboardInterrupt) between two file
\* operations of save_conf
interrupt ==
    /\ pc # "idle"
    /\ pc' = "idle"
    /\ last' = Ended("save", "interrupted", pc, FALSE)
    /\ UNCHANGED <<flagvars, conf, fs, pre, edits, extedits, saves, logvars>>

\* --------------------------------------------------------- environment
\* the rest of the program sets an option in conf
set_option(s, k, v) ==
    /\ pc = "idle"
    /\ edits < MaxEdits
    /\ edits' = edits + 1
    /\ conf' = SetOption(IF s = DEFAULTSECT \/ HasSection(conf, s)
                         THEN conf ELSE AddSection(conf, s), s, k, v)
    /\ last' = NoOp
    /\ pre' = [conf |-> conf', fs |-> fs]
    /\ UNCHANGED <<flagvars, fs, pc, extedits, saves, logvars>>

\* somebody edits the config file on disk
external_edit(f) ==
    /\ pc = "idle"
    /\ extedits < MaxExtEdits
    /\ fs["conf"].exists
    /\ f # fs["conf"]
    /\ extedits' = extedits + 1
    /\ fs' = [fs EXCEPT !["conf"] = f]
    /\ last' = NoOp
    /\ pre' = [conf |-> conf, fs |-> fs']
    /\ UNCHANGED <<flagvars, conf, pc, edits, saves, logvars>>

\* --------------------------------------------------- reconfigure_logger
NoLogfile == "None"
LogfileArgs == {NoLogfile, "run.log"}

Range(seq) == { seq[i] : i \in 1..Len(seq) }

\* Detached when the loop of lines 36-38 removes nothing
DetachedNone(hs) == hs

\* lines 36-38: what is left of logger.handlers after the loop
Detached(hs) == SelectSeq(hs, LAMBDA h: FALSE)

\* lines 36-37: the handlers the loop has closed
Closed(hs) == Range(hs)

\* line 46
WantsFile == logfile # NoLogfile

\* LevelFor with the comparison of line 55 off by one
LevelForOffByOne(v) ==
    IF v = 1 THEN "INFO"
    ELSE IF v > 2 THEN "DEBUG"
    ELSE "WARNING"

\* lines 53-58
LevelFor(v) ==
    IF v = 1 THEN "INFO"
    ELSE IF v > 1 THEN "DEBUG"
    ELSE "WARNING"

reconfigure_logger ==
    /\ calls < MaxCalls
    /\ calls' = calls + 1
    /\ LET console == Len(hkind) + 1
           file == Len(hkind) + 2
           kept == Detached(handlers)
       IN  /\ hclosed' = hclosed \cup Closed(handlers)
           /\ IF WantsFile /\ ~logfile_ok THEN
                  \* logging.FileHandler() raises, lines 52-59 do not run
                  /\ hkind' = Append(hkind, "console")
                  /\ handlers' = Append(kept, console)
                  /\ level' = level
                  /\ lastlog' = [outcome |-> "os_error", before |-> handlers]
              ELSE IF WantsFile THEN
                  /\ hkind' = hkind \o <<"console", "file">>
                  /\ handlers' = kept \o <<console, file>>
                  /\ level' = LevelFor(verbose)
                  /\ lastlog' = [outcome |-> "ok", before |-> handlers]
              ELSE
                  /\ hkind' = Append(hkind, "console")
                  /\ handlers' = Append(kept, console)
                  /\ level' = LevelFor(verbose)
                  /\ lastlog' = [outcome |-> "ok", before |-> handlers]
    /\ UNCHANGED <<verbose, logfile, logfile_ok, foreign, confvars>>

NoCall == [outcome |-> "", before |-> <<>>]

\* code outside this module attaches a handler of its own
add_foreign_handler ==
    /\ foreign < MaxForeign
    /\ foreign' = foreign + 1
    /\ hkind' = Append(hkind, "foreign")
    /\ handlers' = Append(handlers, Len(hkind) + 1)
    /\ lastlog' = NoCall
    /\ UNCHANGED <<hclosed, level, verbose, logfile, logfile_ok, calls, confvars>>

\* the arguments record is given other values (pargs is a plain Namespace)
set_pargs(v, lf) ==
    /\ <<v, lf>> # <<verbose, logfile>>
    /\ verbose' = v
    /\ logfile' = lf
    /\ lastlog' = NoCall
    /\ UNCHANGED <<handlers, hkind, hclosed, level, logfile_ok, calls, foreign,
                   confvars>>

\* ------------------------------------------------------- specifications
\* line 22: the root logger as the logging module creates it
LoggerConstructed ==
    /\ handlers = <<>>
    /\ hkind = <<>>
    /\ hclosed = {}
    /\ level = "WARNING"
    /\ calls = 0
    /\ foreign = 0
    /\ lastlog = NoCall

\* line 21: an empty ConfigParser; nothing saved yet
ConfConstructed ==
    /\ conf = EmptyConf
    /\ pc = "idle"
    /\ pre = [conf |-> EmptyConf, fs |-> fs]
    /\ last = NoOp
    /\ edits = 0
    /\ extedits = 0
    /\ saves = 0

Init ==
    /\ conf_rw \in BOOLEAN
    /\ conf_rw_save \in BOOLEAN
    /\ conf_rw_backup \in BOOLEAN
    /\ has_conffile \in BOOLEAN
    /\ can_read \in BOOLEAN
    /\ dir_writable \in BOOLEAN
    /\ file_writable \in BOOLEAN
    /\ \E f \in DiskFiles \cup {NoFile} :
           fs = [n \in {"conf", "bak", "new"} |-> IF n = "conf" THEN f ELSE NoFile]
    /\ ConfConstructed
    /\ verbose = 0
    /\ logfile = NoLogfile
    /\ logfile_ok = TRUE
    /\ LoggerConstructed

Next ==
    \/ \E clear_load \in BOOLEAN : reload_conf(clear_load)
    \/ save_begin
    \/ copy_open
    \/ copy_chunk
    \/ copy_close
    \/ open_target
    \/ write_line
    \/ close_target
    \/ move_new
    \/ interrupt
    \/ \E s \in AnySec, k \in Keys, v \in Values : set_option(s, k, v)
    \/ \E f \in DiskFiles : external_edit(f)

Spec == Init /\ [][Next]_vars

InitLog ==
    /\ conf_rw = TRUE
    /\ conf_rw_save = TRUE
    /\ conf_rw_backup = TRUE
    /\ has_conffile = FALSE
    /\ can_read = TRUE
    /\ dir_writable = TRUE
    /\ file_writable = TRUE
    /\ fs = [n \in {"conf", "bak", "new"} |-> NoFile]
    /\ ConfConstructed
    /\ verbose \in 0..MaxVerbose
    /\ logfile \in LogfileArgs
    /\ logfile_ok \in BOOLEAN
    /\ LoggerConstructed

NextLog ==
    \/ reconfigure_logger
    \/ add_foreign_handler
    \/ \E v \in 0..MaxVerbose, lf \in LogfileArgs : set_pargs(v, lf)

SpecLog == InitLog /\ [][NextLog]_vars

\* ================================================================ claims
SaveEnded(outcome) == last.op = "save" /\ last.outcome = outcome
ReloadEnded == last.op = "reload"
NewContent == WholeFile(Serialize(conf))
KindsOf(hs) == [i \in 1..Len(hs) |-> hkind[hs[i]]]
CountKind(hs, kind) == Cardinality({ i \in 1..Len(hs) : hkind[hs[i]] = kind })
\* what is in the file on disk, read into an empty parser
OnDisk == ReadFile(EmptyConf, ReadableLines).c

\* C1 as stated: with safe-save on and the path known, the config file is
\* always the old or the new content; an interruption anywhere before the
\* rename leaves the original unchanged AND a .new file present; after the
\* rename .new is gone and the config file is the serialized conf.
\* (An interruption before the first file operation of the call is not
\* counted as one.)
C1_AnyInterruptionLeavesNew ==
    (conf_rw_save /\ has_conffile) =>
        /\ pc # "idle" => fs["conf"] \in {pre.fs["conf"], NewContent}
        /\ (SaveEnded("interrupted") /\ last.at # FirstStep) =>
               fs["conf"] = pre.fs["conf"] /\ fs["new"].exists
        /\ SaveEnded("ok") => ~fs["new"].exists /\ fs["conf"] = NewContent

\* C1 amended: as C1, but the .new file is promised only when the
\* interruption comes after the temp file was opened (during the write, or
\* between the write and the rename); interrupted earlier, the original is
\* unchanged and .new is as it was before the call.
C1_SafeSave ==
    (conf_rw_save /\ has_conffile) =>
        /\ pc # "idle" => fs["conf"] \in {pre.fs["conf"], NewContent}
        /\ SaveEnded("interrupted") =>
               /\ fs["conf"] = pre.fs["conf"]
               /\ last.at \in {"write", "move"} => fs["new"].exists
               /\ last.at \in {"copy_open", "copying", "open"} =>
                      fs["new"] = pre.fs["new"]
        /\ SaveEnded("ok") => ~fs["new"].exists /\ fs["conf"] = NewContent

\* a save that went through after an earlier one was interrupted mid-write
C1_Witness ==
    /\ conf_rw_save /\ has_conffile
    /\ SaveEnded("ok")
    /\ pre.fs["new"].exists /\ ~pre.fs["new"].whole
    /\ fs["conf"] # pre.fs["conf"]
    /\ ~fs["new"].exists

\* C2: save_conf with conf_rw false ends with the mode error and leaves
\* the config file, .bak and .new as they were, whatever the other flags
\* and whether or not a path is known.
C2_NoWriteBack ==
    /\ ~conf_rw => pc = "idle"
    /\ (last.op = "save" /\ ~conf_rw) =>
           last.outcome = "mode_error" /\ fs = pre.fs

C2_Witness ==
    /\ ~conf_rw /\ conf_rw_save /\ conf_rw_backup /\ has_conffile
    /\ SaveEnded("mode_error")
    /\ fs["conf"].exists /\ dir_writable /\ file_writable /\ can_read

\* C3: reload_conf on a path that is not readable ends with the
\* "can not access config file" error and conf is what it was, for both
\* values of clear_load.
C3_UnreadableKeepsConf ==
    (ReloadEnded /\ has_conffile /\ ~AccessRead) =>
        last.outcome = "no_access" /\ conf = pre.conf

C3_Witness ==
    /\ ReloadEnded /\ has_conffile /\ ~AccessRead
    /\ last.clear
    /\ conf.sections # <<>>
    /\ last.outcome = "no_access"

\* C4 as stated: with conf_rw on, a directory that is not writable makes
\* reload_conf end with the "can not write to directory" error, for every
\* setting of the other two flags, conf untouched.  (The file itself is
\* readable, so that the read check of line 73 is passed.)
C4_DirAlwaysChecked ==
    (ReloadEnded /\ has_conffile /\ conf_rw /\ AccessRead /\ ~AccessDir) =>
        last.outcome = "no_dir_write" /\ conf = pre.conf

\* C4 amended: the directory is checked only when conf_rw is on, at least
\* one of conf_rw_save and conf_rw_backup is on, and the file passed the
\* read check; then a directory that is not writable ends reload_conf with
\* the directory error, conf untouched.  With both flags off the directory
\* is not looked at.
C4_DirCheckedForNewFiles ==
    /\ (ReloadEnded /\ has_conffile /\ conf_rw /\ AccessRead /\ ~AccessDir
            /\ (conf_rw_save \/ conf_rw_backup)) =>
           last.outcome = "no_dir_write" /\ conf = pre.conf
    /\ (ReloadEnded /\ has_conffile /\ conf_rw /\ AccessRead /\ ~AccessDir
            /\ ~conf_rw_save /\ ~conf_rw_backup) =>
           last.outcome \in {"ok", "no_file_write"}

C4_Witness ==
    /\ ReloadEnded /\ has_conffile /\ conf_rw /\ AccessRead /\ ~AccessDir
    /\ conf_rw_backup /\ ~conf_rw_save
    /\ last.clear
    /\ conf.sections # <<>>
    /\ last.outcome = "no_dir_write"

\* C5: after a save_conf that returned normally with backup on, .bak has
\* the content the config file had when the call began, with safe-save on
\* or off.
C5_BackupIsOldFile ==
    (SaveEnded("ok") /\ conf_rw_backup /\ has_conffile) =>
        /\ fs["bak"].exists
        /\ pre.fs["conf"].exists
        /\ fs["bak"].data = pre.fs["conf"].data

\* an earlier, different backup was overwritten
C5_Witness ==
    /\ SaveEnded("ok") /\ conf_rw_backup /\ has_conffile
    /\ pre.fs["bak"].exists
    /\ pre.fs["bak"].data # pre.fs["conf"].data
    /\ fs["bak"].data = pre.fs["conf"].data
    /\ fs["conf"].data # pre.fs["conf"].data

\* C6: after a reload_conf that read the file, every key of the file has
\* the file's value; a key that a load put in memory and that the file no
\* longer has is gone when clear_load was true and kept, with its value,
\* when clear_load was false.  (edits = 0: all of conf came from loads.)
C6_ClearDropsAbsentKeys ==
    (ReloadEnded /\ last.at = "read" /\ last.outcome = "ok" /\ edits = 0) =>
        \A s \in AnySec, k \in Keys :
            /\ Stored(OnDisk, s, k) =>
                   /\ Stored(conf, s, k)
                   /\ StoredValue(conf, s, k) = StoredValue(OnDisk, s, k)
            /\ (Stored(pre.conf, s, k) /\ ~Stored(OnDisk, s, k)) =>
                   IF last.clear
                   THEN ~Stored(conf, s, k)
                   ELSE /\ Stored(conf, s, k)
                        /\ StoredValue(conf, s, k) = StoredValue(pre.conf, s, k)

\* C7: when reconfigure_logger returns, the logger has one console sink
\* and, if and only if a log file is given, one file sink, nothing else;
\* every handler attached before the call is closed and no longer
\* attached.  (If opening the log file raises, the console sink alone is
\* attached.)
C7_ExactSinks ==
    (lastlog.outcome # "") =>
        /\ KindsOf(handlers) =
               IF WantsFile /\ lastlog.outcome = "ok"
               THEN <<"console", "file">> ELSE <<"console">>
        /\ \A h \in Range(lastlog.before) :
               h \in hclosed /\ h \notin Range(handlers)

\* the third call in a row with a log file, after foreign handlers came
C7_Witness ==
    /\ lastlog.outcome = "ok" /\ WantsFile
    /\ calls = MaxCalls
    /\ Len(lastlog.before) >= 3
    /\ CountKind(lastlog.before, "foreign") >= 1
    /\ CountKind(lastlog.before, "file") = 1
    /\ Len(handlers) = 2

\* C8: with conf_rw on and no path known, save_conf returns normally and
\* changes no file and not conf, whatever the other flags.
C8_NoPathNoOp ==
    /\ (conf_rw /\ ~has_conffile) => pc = "idle"
    /\ (last.op = "save" /\ conf_rw /\ ~has_conffile) =>
           last.outcome = "ok" /\ fs = pre.fs /\ conf = pre.conf

C8_Witness ==
    /\ last.op = "save" /\ conf_rw /\ ~has_conffile
    /\ conf_rw_save /\ conf_rw_backup
    /\ conf # EmptyConf
    /\ fs["conf"].exists /\ dir_writable /\ file_writable /\ can_read
    /\ last.outcome = "ok"

\* C9: when reconfigure_logger returns, the level is WARNING for
\* verbose = 0, INFO for verbose = 1 and DEBUG for verbose >= 2.
C9_LevelOfVerbosity ==
    (lastlog.outcome = "ok") =>
        /\ verbose = 0 => level = "WARNING"
        /\ verbose = 1 => level = "INFO"
        /\ verbose >= 2 => level = "DEBUG"

C9_Witness ==
    /\ lastlog.outcome = "ok"
    /\ verbose = MaxVerbose
    /\ level = "DEBUG"

\* C10 as stated: with backup on, whatever conf_rw_save is, the config
\* file or .bak is a complete configuration in every reachable state.
C10_BackupAlwaysWhole ==
    (conf_rw_backup /\ has_conffile /\ fs["conf"].exists) =>
        fs["conf"].whole \/ (fs["bak"].exists /\ fs["bak"].whole)

\* C10 amended: with backup on and safe-save on, the config file or .bak
\* is a complete configuration in every reachable state.
C10_SafeSaveAlwaysWhole ==
    (conf_rw_backup /\ conf_rw_save /\ has_conffile /\ fs["conf"].exists) =>
        fs["conf"].whole \/ (fs["bak"].exists /\ fs["bak"].whole)

\* the second save was interrupted while .bak was being rewritten
C10_Witness ==
    /\ conf_rw_backup /\ conf_rw_save /\ has_conffile
    /\ SaveEnded("interrupted") /\ last.at = "copying"
    /\ saves = 2
    /\ fs["bak"].exists /\ ~fs["bak"].whole
    /\ fs["conf"].whole
    /\ fs["conf"] # pre.fs["bak"]

====
